---- MODULE Spec2Model ----
(***************************************************************************)
(* A model of toil_lib.programs (docker_call, _fix_permissions, mock_mode) *)
(* and toil_lib.tools.spark_tools (MasterAddress, _make_parameters,        *)
(* call_conductor, call_adam).                                             *)
(*                                                                         *)
(* One call is in flight at a time (the library is synchronous).  A call   *)
(* to docker_call is split at the points where it blocks on an external    *)
(* process: the main container run and the ownership-repair run.           *)
(***************************************************************************)
EXTENDS Integers, Sequences, FiniteSets, TLC

VARIABLES env,        \* os.environ.get('TOIL_SCRIPTS_MOCK_MODE'), "unset" when absent
          fs,         \* the file system: path -> content ("<absent>" when no such file)
          pc,         \* "idle" | "main" | "repair" | "done"
          op,         \* the function the caller invoked
          args,       \* the docker_call arguments, defaults filled in
          sargs,      \* the spark_tools arguments
          events,     \* what the current call has done so far, in order
          pending,    \* the exception caught by the bare except, "none" otherwise
          mainExit,   \* exit status of the main container process: "none" | "zero" | "nonzero"
          repairExit, \* exit status of the chown container process
          result,     \* how the call ended, "none" while it runs
          ret         \* the value a spark_tools helper computed: <<>> is None, <<v>> is v

vars == <<env, fs, pc, op, args, sargs, events, pending, mainExit, repairExit, result, ret>>

(***************************************************************************)
(* Bounds of the model.                                                    *)
(***************************************************************************)
MaxMemory == 1      \* memory budgets 0..MaxMemory gigabytes
MaxArgs == 1        \* job argument lists of at most MaxArgs tokens

(***************************************************************************)
(* Python values.  None is the empty tuple and a present value v is <<v>>, *)
(* so that None, the empty list and the empty string stay distinct.        *)
(***************************************************************************)
None == <<>>
Some(v) == <<v>>
IsNone(o) == o = <<>>
Get(o) == o[1]

RECURSIVE JoinWith(_, _)
\* sep.join(tokens)
JoinWith(tokens, sep) ==
    IF tokens = <<>> THEN ""
    ELSE IF Len(tokens) = 1 THEN tokens[1]
    ELSE tokens[1] \o sep \o JoinWith(Tail(tokens), sep)

RECURSIVE Count(_, _)
Count(seq, e) ==
    IF seq = <<>> THEN 0
    ELSE (IF Head(seq) = e THEN 1 ELSE 0) + Count(Tail(seq), e)

Contains(seq, e) == \E i \in 1..Len(seq) : seq[i] = e

\* the permutations of a finite set, as sequences: the orders a dict can iterate in
Orders(S) == {o \in [1..Cardinality(S) -> S] : \A i, j \in 1..Cardinality(S) : o[i] = o[j] => i = j}

(***************************************************************************)
(* File names and the file system.                                         *)
(***************************************************************************)
WorkDir == "/work"
Cwd == "/cwd"
InputNames == {"in.txt"}
OutputNames == {"out.txt", "/tmp/out.txt"}
AbsNames == {"/tmp/out.txt"}
Names == InputNames \cup OutputNames

\* os.path.isabs on the names of the model
IsAbs(name) == name \in AbsNames \cup {WorkDir, Cwd}

\* os.path.join(work_dir, filename): an absolute second component discards the first
PathJoin(dir, name) == IF IsAbs(name) THEN name ELSE dir \o "/" \o name

\* os.path.abspath
AbsPath(p) == IF IsAbs(p) THEN p ELSE PathJoin(Cwd, p)

Paths == {PathJoin(WorkDir, n) : n \in Names}
Absent == "<absent>"

\* what a file can hold at the start; "contents" is the mock placeholder payload
InitialContents(p) == IF p = PathJoin(WorkDir, "in.txt") THEN {Absent, "data"}
                      ELSE {Absent, "contents", "data"}

\* os.path.exists / os.path.isfile (the model holds regular files only)
Exists(f, p) == f[p] # Absent
IsFile(f, p) == f[p] # Absent

(***************************************************************************)
(* toil_lib.programs                                                       *)
(***************************************************************************)
EnvValues == {"unset", "0", "1"}

\* int() on the strings of EnvValues
ParseInt(s) == IF s = "1" THEN 1 ELSE 0

\* mock_mode(): int(os.environ.get('TOIL_SCRIPTS_MOCK_MODE', '0')) != 0
mock_mode(e) == ParseInt(IF e = "unset" THEN "0" ELSE e) # 0

\* bool() of an optional string
Truthy(o) == ~IsNone(o) /\ Get(o) # ""

\* the parameter names docker_call declares; it takes no **kwargs
DockerCallSignature ==
    {"tool", "tools", "parameters", "work_dir", "rm", "env", "outfile", "errfile",
     "inputs", "outputs", "docker_parameters", "check_output", "return_stderr", "mock"}

\* the defaults of docker_call's parameters
DockerCallDefaults ==
    [tool |-> None, tools |-> None, parameters |-> <<>>, work_dir |-> WorkDir,
     rm |-> TRUE, env |-> <<>>, outfile |-> FALSE, errfile |-> FALSE,
     inputs |-> {}, outputs |-> <<>>, docker_parameters |-> None,
     check_output |-> FALSE, return_stderr |-> FALSE, mock |-> None]

\* Python binds keyword arguments to declared parameters, TypeError otherwise
Binds(kw) == kw \subseteq DockerCallSignature

\* toil_lib.require(expression, message): raises unless the expression holds
require(expression) == IF expression THEN "none" ELSE "RequireError"

\* if mock is None: mock = mock_mode()
ResolveMock(a, e) == IF IsNone(a.mock) THEN mock_mode(e) ELSE Get(a.mock)

InputsExistSkipped(f, a) == TRUE
\* for filename in inputs: assert(os.path.isfile(os.path.join(work_dir, filename)))
InputsExist(f, a) == \A n \in a.inputs : IsFile(f, PathJoin(a.work_dir, n))

\* toil_lib.urls.download_url: fetches url into work_dir/name, or raises
DownloadUrl(f, p, ok) ==
    IF ok THEN [fs |-> [f EXCEPT ![p] = "data"], raised |-> FALSE]
    ELSE [fs |-> f, raised |-> TRUE]

MockCreateOverwrite(f, p) == [f EXCEPT ![p] = "contents"]
\* if not os.path.exists(file_path): open(file_path, 'w').write("contents")
MockCreate(f, p) == IF ~Exists(f, p) THEN [f EXCEPT ![p] = "contents"] ELSE f

RECURSIVE MockOutputs(_, _, _, _)
\* the loop over outputs.items() in mock mode, in iteration order `order`;
\* dlok holds the names whose download succeeds
MockOutputs(f, a, order, dlok) ==
    IF order = <<>> THEN [fs |-> f, result |-> "return"]
    ELSE LET n == Head(order)
             p == PathJoin(a.work_dir, n)
         IN IF IsNone(a.outputs[n])
            THEN MockOutputs(MockCreate(f, p), a, Tail(order), dlok)
            ELSE LET d == IF ~Exists(f, p) THEN DownloadUrl(f, p, n \in dlok)
                          ELSE [fs |-> f, raised |-> FALSE]
                 IN IF d.raised THEN [fs |-> d.fs, result |-> "DownloadError"]
                    ELSE IF ~Exists(d.fs, p) THEN [fs |-> d.fs, result |-> "AssertionError"]
                    ELSE MockOutputs(d.fs, a, Tail(order), dlok)

\* every way the mock branch can end from file system f
MockOutcomes(f, a) ==
    {MockOutputs(f, a, o, dlok) : o \in Orders(DOMAIN a.outputs), dlok \in SUBSET (DOMAIN a.outputs)}

RECURSIVE EnvFlags(_)
\* for e, v in env.iteritems(): base_docker_call.extend(['-e', '{}={}'.format(e, v)])
EnvFlags(e) ==
    IF e = <<>> THEN <<>>
    ELSE <<"-e", Head(e)[1] \o "=" \o Head(e)[2]>> \o EnvFlags(Tail(e))

base_docker_call(a) ==
    <<"docker", "run", "--log-driver=none", "-v", AbsPath(a.work_dir) \o ":/data">>
    \o (IF a.rm THEN <<"--rm">> ELSE <<>>)
    \o EnvFlags(a.env)
    \o (IF ~IsNone(a.docker_parameters) /\ Get(a.docker_parameters) # <<>>
        THEN Get(a.docker_parameters) ELSE <<>>)

\* require(bool(tools) != bool(tool), ...)
ToolRequirement(a) == Truthy(a.tools) # Truthy(a.tool)

\* the shell command line of the main container process
MainCommand(a) ==
    IF Truthy(a.tools)
    THEN JoinWith(base_docker_call(a)
                  \o <<"--entrypoint /bin/bash", Get(a.tools),
                       "-c '" \o JoinWith(a.parameters, " | ") \o "'">>, " ")
    ELSE JoinWith(base_docker_call(a) \o <<Get(a.tool)>> \o a.parameters, " ")

\* os.stat(work_dir): '{}:{}'.format(stat.st_uid, stat.st_gid)
StatOwner == ToString(1000) \o ":" \o ToString(1000)

\* _fix_permissions: the argument vector of the ownership-repair process
RepairCommand(a) ==
    base_docker_call(a) \o <<"--entrypoint=chown">>
    \o <<IF Truthy(a.tools) THEN Get(a.tools) ELSE Get(a.tool)>>
    \o <<"-R", StatOwner, "/data">>

\* which branch of the try block runs the main process
\* "check_call" continues after the process; "check_output" returns from inside the try
MainBranch(a) ==
    IF a.outfile THEN "check_call"
    ELSE IF a.check_output THEN "check_output"
    ELSE "check_call"

PanicMasked(original, raised) == IF raised # "none" THEN raised ELSE original
\* with panic(): ... re-raises the exception that was being handled on entry,
\* whatever the body raised
Panic(original, raised) == original

\* for filename in outputs.keys(): assert(os.path.isfile(<joined unless absolute>))
OutputsExist(f, a) ==
    \A n \in DOMAIN a.outputs :
        IsFile(f, IF ~IsAbs(n) THEN PathJoin(a.work_dir, n) ELSE n)

(***************************************************************************)
(* toil_lib.tools.spark_tools                                              *)
(***************************************************************************)
SPARK_MASTER_PORT == "7077"
HDFS_MASTER_PORT == "8020"

\* MasterAddress: a str (the notional address) carrying the attribute `actual`
MasterAddress(master_ip) == [notional |-> master_ip, actual |-> master_ip]

docker_parameters_notional(m, dp) ==
    IF m.notional # m.actual
    THEN IF IsNone(dp) THEN Some(<<"--add-host=spark-master:" \o m.notional>>)
         ELSE Some(Append(Get(dp), "--add-host=spark-master:" \o m.notional))
    ELSE dp
\* MasterAddress.docker_parameters
docker_parameters(m, dp) ==
    IF m.notional # m.actual
    THEN IF IsNone(dp) THEN Some(<<"--add-host=spark-master:" \o m.actual>>)
         ELSE Some(Append(Get(dp), "--add-host=spark-master:" \o m.actual))
    ELSE dp

\* the condition _make_parameters requires
MemoryRequirement(memory, override_parameters) ==
    /\ (~IsNone(override_parameters) \/ ~IsNone(memory))
    /\ (IsNone(override_parameters) \/ IsNone(memory))

_make_parameters_no_separator(master_ip, default_parameters, memory, arguments, override_parameters) ==
    (IF ~IsNone(memory)
     THEN <<"--master", "spark://" \o master_ip.notional \o ":" \o SPARK_MASTER_PORT,
            "--conf", "spark.driver.memory=" \o ToString(Get(memory)) \o "g",
            "--conf", "spark.executor.memory=" \o ToString(Get(memory)) \o "g",
            "--conf", "spark.hadoop.fs.default.name=hdfs://" \o master_ip.notional
                       \o ":" \o HDFS_MASTER_PORT>>
     ELSE Get(override_parameters))
    \o default_parameters \o arguments
\* _make_parameters, once its requirement holds
_make_parameters(master_ip, default_parameters, memory, arguments, override_parameters) ==
    (IF ~IsNone(memory)
     THEN <<"--master", "spark://" \o master_ip.notional \o ":" \o SPARK_MASTER_PORT,
            "--conf", "spark.driver.memory=" \o ToString(Get(memory)) \o "g",
            "--conf", "spark.executor.memory=" \o ToString(Get(memory)) \o "g",
            "--conf", "spark.hadoop.fs.default.name=hdfs://" \o master_ip.notional
                       \o ":" \o HDFS_MASTER_PORT>>
     ELSE Get(override_parameters))
    \o default_parameters \o <<"--">> \o arguments

\* the keyword arguments call_conductor and call_adam pass to docker_call
SparkCallKeywords == {"job", "rm", "tool", "docker_parameters", "parameters", "mock"}

ConductorImage == "quay.io/ucsc_cgl/conductor"
AdamImage == "quay.io/ucsc_cgl/adam:962-ehf--6e7085f8cac4b9a927dc9fb06b48007957256b80"

\* call_adam: the master settings
AdamMaster(master_ip, run_local) ==
    IF run_local THEN <<"--master", "local[*]">>
    ELSE <<"--master", "spark://" \o master_ip.notional \o ":" \o SPARK_MASTER_PORT,
           "--conf", "spark.hadoop.fs.default.name=hdfs://" \o master_ip.notional
                      \o ":" \o HDFS_MASTER_PORT>>

\* call_adam: default_params
AdamDefaultParams(master_ip, run_local) ==
    AdamMaster(master_ip, run_local)
    \o <<"--conf", "spark.driver.maxResultSize=0",
         "--conf", "spark.storage.memoryFraction=0.3",
         "--conf", "spark.storage.unrollFraction=0.1",
         "--conf", "spark.network.timeout=300s">>

(***************************************************************************)
(* The inputs the model draws calls from.                                  *)
(***************************************************************************)
Addresses == {"10.0.0.1", "auto"}
\* a MasterAddress as constructed, and one whose `actual` was set by discovery
Masters == {MasterAddress(m) : m \in Addresses}
           \cup {[MasterAddress("auto") EXCEPT !.actual = "10.0.0.5"]}
Memories == {None} \cup {Some(g) : g \in 0..MaxMemory}
Overrides == {None, Some(<<>>), Some(<<"--master", "local[*]">>)}
ArgTokens == {"run", "--input"}
ArgLists == UNION {[1..n -> ArgTokens] : n \in 0..MaxArgs}
DefaultLists == {<<>>, <<"--conf", "x=1">>}
DockerParameterLists == {None, Some(<<>>), Some(<<"--net=host">>)}
Urls == {"s3://bucket/a", "hdfs://spark-master/b"}
NativePaths == {None, Some("/opt/adam")}
OptionalImages == {None, Some("quay.io/ucsc_cgl/samtools")}
OptionalBools == {None, Some(TRUE), Some(FALSE)}
\* outputs: a dict from some output names to None or a url
OutputDicts == UNION {[D -> {None, Some("http://host/file")}] : D \in SUBSET OutputNames}

SparkDefaults ==
    [master_ip |-> MasterAddress("10.0.0.1"), memory |-> None, override_parameters |-> None,
     arguments |-> <<>>, default_parameters |-> <<>>, docker_parameters |-> None,
     src |-> "", dst |-> "", run_local |-> FALSE, native_adam_path |-> None]

(***************************************************************************)
(* The state machine.                                                      *)
(***************************************************************************)
Init ==
    /\ env \in EnvValues
    /\ fs \in {f \in [Paths -> {Absent, "contents", "data"}] : \A p \in Paths : f[p] \in InitialContents(p)}
    /\ pc = "idle"
    /\ op = "none"
    /\ args = DockerCallDefaults
    /\ sargs = SparkDefaults
    /\ events = <<>>
    /\ pending = "none"
    /\ mainExit = "none"
    /\ repairExit = "none"
    /\ result = "none"
    /\ ret = None

\* the call ends with `res`, having done `evs` and left the file system `f`
Finish(res, evs, f) ==
    /\ pc' = "done"
    /\ result' = res
    /\ events' = evs
    /\ fs' = f
    /\ UNCHANGED <<pending, mainExit, repairExit>>

\* docker_call(**kw) up to its first external process (lines 19-141):
\* binding, defaults, the input checks, the mock branch, the requirement on tool/tools
Enter(kw, a) ==
    /\ args' = a
    /\ IF ~Binds(kw) THEN Finish("TypeError", <<>>, fs)
       ELSE IF ~InputsExist(fs, a) THEN Finish("AssertionError", <<>>, fs)
       ELSE IF ResolveMock(a, env)
            THEN \E o \in MockOutcomes(fs, a) :
                     Finish(o.result, <<"inputs_ok", "mock_outputs">>, o.fs)
       ELSE IF require(ToolRequirement(a)) # "none"
            THEN Finish(require(ToolRequirement(a)), <<"inputs_ok">>, fs)
       ELSE /\ pc' = "main"
            /\ events' = <<"inputs_ok", "main">>
            /\ UNCHANGED <<fs, result, pending, mainExit, repairExit>>

\* a caller invokes docker_call directly
DockerCall ==
    /\ pc = "idle"
    /\ \E t \in OptionalImages, ts \in OptionalImages, m \in OptionalBools,
          of \in BOOLEAN, ef \in BOOLEAN, co \in BOOLEAN, rs \in BOOLEAN,
          ins \in SUBSET InputNames, outs \in OutputDicts :
          Enter(DockerCallSignature \ {"work_dir", "rm", "env", "docker_parameters"},
                [DockerCallDefaults EXCEPT !.tool = t, !.tools = ts, !.mock = m,
                     !.parameters = <<"view", "-h">>,
                     !.outfile = of, !.errfile = ef, !.check_output = co,
                     !.return_stderr = rs, !.inputs = ins, !.outputs = outs])
    /\ op' = "docker_call"
    /\ UNCHANGED <<env, sargs, ret>>

\* the main container process ends (lines 128-148); the container may have written
\* files under the mounted working directory.  A zero exit on the check_output
\* branch returns from inside the try block; otherwise _fix_permissions starts the
\* chown process, from the else clause or from the except clause.
MainExit ==
    /\ pc = "main"
    /\ \E status \in {"zero", "nonzero"}, written \in SUBSET {n \in OutputNames : ~IsAbs(n)} :
          /\ mainExit' = status
          /\ fs' = [p \in Paths |-> IF \E n \in written : p = PathJoin(args.work_dir, n)
                                    THEN "data" ELSE fs[p]]
          /\ IF status = "zero" /\ MainBranch(args) = "check_output"
             THEN /\ pc' = "done"
                  /\ result' = "return_output"
                  /\ UNCHANGED <<events, pending>>
             ELSE /\ pc' = "repair"
                  /\ events' = Append(events, "repair")
                  /\ pending' = IF status = "zero" THEN "none" ELSE "CalledProcessError_main"
                  /\ UNCHANGED result
    /\ UNCHANGED <<env, op, args, sargs, repairExit, ret>>

\* the chown process ends (lines 143-153): inside `with panic()` the caught exception
\* is re-raised; on the else path a failed chown raises, a successful one is
\* followed by the output checks
RepairExit ==
    /\ pc = "repair"
    /\ \E status \in {"zero", "nonzero"} :
          LET raised == IF status = "zero" THEN "none" ELSE "CalledProcessError_repair"
          IN /\ repairExit' = status
             /\ pc' = "done"
             /\ IF pending # "none"
                THEN /\ result' = Panic(pending, raised)
                     /\ UNCHANGED events
                ELSE IF raised # "none"
                THEN /\ result' = raised
                     /\ UNCHANGED events
                ELSE /\ events' = Append(events, "verify")
                     /\ result' = IF OutputsExist(fs, args) THEN "return" ELSE "AssertionError"
    /\ UNCHANGED <<env, fs, op, args, sargs, pending, mainExit, ret>>

\* call_conductor (lines 117-127): the arguments of docker_call are evaluated first
\* (docker_parameters, then _make_parameters), then docker_call is called
CallConductor ==
    /\ pc = "idle"
    /\ \E m \in Masters, src \in Urls, dst \in Urls, mem \in Memories, ov \in Overrides :
          LET arguments == <<"-C", src, dst>>
              dp == docker_parameters(m, Some(<<"--net=host">>))
          IN /\ sargs' = [SparkDefaults EXCEPT !.master_ip = m, !.memory = mem,
                              !.override_parameters = ov, !.arguments = arguments,
                              !.src = src, !.dst = dst]
             /\ IF require(MemoryRequirement(mem, ov)) # "none"
                THEN /\ Finish(require(MemoryRequirement(mem, ov)), <<>>, fs)
                     /\ ret' = None
                     /\ args' = DockerCallDefaults
                ELSE LET parameters == _make_parameters(m, <<>>, mem, arguments, ov)
                     IN /\ ret' = Some(parameters)
                        /\ Enter(SparkCallKeywords,
                                 [DockerCallDefaults EXCEPT !.rm = FALSE,
                                      !.tool = Some(ConductorImage),
                                      !.docker_parameters = dp,
                                      !.parameters = parameters,
                                      !.mock = Some(FALSE)])
    /\ op' = "call_conductor"
    /\ UNCHANGED env

\* call_adam (lines 154-192)
CallAdam ==
    /\ pc = "idle"
    /\ \E m \in Masters, arguments \in ArgLists, mem \in Memories, ov \in Overrides,
          run_local \in BOOLEAN, native \in NativePaths :
          LET default_params == AdamDefaultParams(m, run_local)
              dp == docker_parameters(m, Some(<<"--net=host">>))
          IN /\ sargs' = [SparkDefaults EXCEPT !.master_ip = m, !.memory = mem,
                              !.override_parameters = ov, !.arguments = arguments,
                              !.default_parameters = default_params,
                              !.run_local = run_local, !.native_adam_path = native]
             /\ IF IsNone(native)
                THEN IF require(MemoryRequirement(mem, ov)) # "none"
                     THEN /\ Finish(require(MemoryRequirement(mem, ov)), <<>>, fs)
                          /\ ret' = None
                          /\ args' = DockerCallDefaults
                     ELSE LET parameters == _make_parameters(m, default_params, mem, arguments, ov)
                          IN /\ ret' = Some(parameters)
                             /\ Enter(SparkCallKeywords,
                                      [DockerCallDefaults EXCEPT !.rm = FALSE,
                                           !.tool = Some(AdamImage),
                                           !.docker_parameters = dp,
                                           !.parameters = parameters,
                                           !.mock = Some(FALSE)])
                ELSE \* check_call([<native>/bin/adam-submit] + default_params + arguments)
                     \E status \in {"zero", "nonzero"} :
                        /\ ret' = Some(<<PathJoin(Get(native), "bin/adam-submit")>>
                                       \o default_params \o arguments)
                        /\ args' = DockerCallDefaults
                        /\ Finish(IF status = "zero" THEN "return" ELSE "CalledProcessError_native",
                                  <<"native">>, fs)
    /\ op' = "call_adam"
    /\ UNCHANGED env

\* a caller invokes _make_parameters (lines 53-95)
MakeParameters ==
    /\ pc = "idle"
    /\ \E m \in Masters, defaults \in DefaultLists, mem \in Memories,
          arguments \in ArgLists, ov \in Overrides :
          /\ sargs' = [SparkDefaults EXCEPT !.master_ip = m, !.memory = mem,
                           !.override_parameters = ov, !.arguments = arguments,
                           !.default_parameters = defaults]
          /\ IF require(MemoryRequirement(mem, ov)) # "none"
             THEN /\ Finish(require(MemoryRequirement(mem, ov)), <<>>, fs)
                  /\ ret' = None
             ELSE /\ Finish("return", <<>>, fs)
                  /\ ret' = Some(_make_parameters(m, defaults, mem, arguments, ov))
    /\ op' = "_make_parameters"
    /\ UNCHANGED <<env, args>>

\* a caller invokes MasterAddress.docker_parameters (lines 40-51)
DockerParameters ==
    /\ pc = "idle"
    /\ \E m \in Masters, dp \in DockerParameterLists :
          /\ sargs' = [SparkDefaults EXCEPT !.master_ip = m, !.docker_parameters = dp]
          /\ ret' = docker_parameters(m, dp)
          /\ Finish("return", <<>>, fs)
    /\ op' = "docker_parameters"
    /\ UNCHANGED <<env, args>>

\* the caller goes on to its next call; the files stay as they are
Reset ==
    /\ pc = "done"
    /\ pc' = "idle"
    /\ op' = "none"
    /\ args' = DockerCallDefaults
    /\ sargs' = SparkDefaults
    /\ events' = <<>>
    /\ pending' = "none"
    /\ mainExit' = "none"
    /\ repairExit' = "none"
    /\ result' = "none"
    /\ ret' = None
    /\ UNCHANGED <<env, fs>>

Next ==
    \/ DockerCall
    \/ MainExit
    \/ RepairExit
    \/ CallConductor
    \/ CallAdam
    \/ MakeParameters
    \/ DockerParameters
    \/ Reset

Spec == Init /\ [][Next]_vars

(***************************************************************************)
(* Vocabulary of the properties.                                           *)
(***************************************************************************)
IsContractViolation(r) == r \in {"AssertionError", "RequireError"}
ReturnedNormally == result \in {"return", "return_output"}
DockerCallDone == pc = "done" /\ op = "docker_call"
RealMode == ~ResolveMock(args, env)
MainRuns == Count(events, "main")
RepairRuns == Count(events, "repair")
OutputPath(n) == IF n \in AbsNames THEN n ELSE args.work_dir \o "/" \o n
AllAddresses == {m.notional : m \in Masters} \cup {m.actual : m \in Masters}
HdfsSettings == {"spark.hadoop.fs.default.name=hdfs://" \o a \o ":8020" : a \in AllAddresses}
SparkMasterUrls == {"spark://" \o a \o ":7077" : a \in AllAddresses}
HasPair(seq, x, y) == \E i \in 1..(Len(seq) - 1) : seq[i] = x /\ seq[i + 1] = y
RECURSIVE AfterSeparator(_)
\* the tokens after the first "--"
AfterSeparator(seq) ==
    IF seq = <<>> THEN <<>>
    ELSE IF Head(seq) = "--" THEN Tail(seq)
    ELSE AfterSeparator(Tail(seq))

(***************************************************************************)
(* C1.  Every real-mode docker_call whose main container process was       *)
(* spawned issues the ownership repair exactly once by the time it ends,   *)
(* whatever outfile / errfile / check_output / return_stderr are and       *)
(* whether the main process succeeded or failed.                           *)
(***************************************************************************)
C1_RepairExactlyOnce ==
    (pc = "done" /\ RealMode /\ MainRuns >= 1) =>
        /\ RepairRuns = 1
        /\ HasPair(events, "main", "repair")
        /\ Contains(RepairCommand(args), "--entrypoint=chown")
        /\ RepairCommand(args)[Len(RepairCommand(args))] = "/data"

(***************************************************************************)
(* C2.  A real-mode docker_call whose container process exited with zero   *)
(* returns normally only if every declared output exists as a file, and    *)
(* otherwise fails with an assertion error, for every combination of       *)
(* outfile / errfile / check_output / return_stderr.                       *)
(***************************************************************************)
C2_ReturnImpliesOutputs ==
    (pc = "done" /\ RealMode /\ mainExit = "zero" /\ ReturnedNormally) =>
        \A n \in DOMAIN args.outputs : fs[OutputPath(n)] # Absent

(***************************************************************************)
(* C3.  docker_call with both tool and tools, or with neither, never       *)
(* spawns a process and ends in a contract violation, in mock mode and in  *)
(* real mode alike.                                                        *)
(***************************************************************************)
C3_ToolSelection ==
    (op = "docker_call" /\ Truthy(args.tool) = Truthy(args.tools)) =>
        /\ MainRuns = 0
        /\ RepairRuns = 0
        /\ pc = "done" => IsContractViolation(result)

(***************************************************************************)
(* C4.  call_conductor, and call_adam without a native path, given exactly *)
(* one of memory and override parameters, reach a real container           *)
(* invocation whatever TOIL_SCRIPTS_MOCK_MODE is; call_conductor's job     *)
(* arguments after "--" are exactly ["-C", src, dst].                      *)
(***************************************************************************)
C4_SparkCallsRunContainer ==
    (/\ pc = "done"
     /\ op \in {"call_conductor", "call_adam"}
     /\ IsNone(sargs.native_adam_path)
     /\ (IsNone(sargs.memory) # IsNone(sargs.override_parameters))) =>
        /\ MainRuns = 1
        /\ RealMode
        /\ op = "call_conductor" =>
               AfterSeparator(args.parameters) = <<"-C", sargs.src, sargs.dst>>

(***************************************************************************)
(* C5.  Whatever the master address and whichever of memory and override   *)
(* parameters is given, the parameter list call_adam produces with         *)
(* run_local=True sets --master local[*] and holds neither an HDFS         *)
(* default-filesystem setting nor a spark://<master>:7077 URL.             *)
(***************************************************************************)
C5_AdamLocal ==
    (pc = "done" /\ op = "call_adam" /\ sargs.run_local /\ ~IsNone(ret)) =>
        /\ HasPair(Get(ret), "--master", "local[*]")
        /\ \A i \in 1..Len(Get(ret)) : Get(ret)[i] \notin HdfsSettings \cup SparkMasterUrls

(***************************************************************************)
(* C6.  _make_parameters: with exactly one of memory and                   *)
(* override_parameters it returns base ++ default_parameters ++ ["--"] ++  *)
(* arguments, base being the four memory pairs or the override list; with  *)
(* both or neither it fails with a contract violation and returns nothing. *)
(***************************************************************************)
C6_MakeParameters ==
    (pc = "done" /\ op = "_make_parameters") =>
        LET mem == sargs.memory
            ov == sargs.override_parameters
            host == sargs.master_ip.notional
            g == ToString(mem[1]) \o "g"
            base == IF mem # <<>>
                    THEN <<"--master", "spark://" \o host \o ":7077",
                           "--conf", "spark.driver.memory=" \o g,
                           "--conf", "spark.executor.memory=" \o g,
                           "--conf", "spark.hadoop.fs.default.name=hdfs://" \o host \o ":8020">>
                    ELSE ov[1]
        IN IF (mem = <<>>) # (ov = <<>>)
           THEN /\ result = "return"
                /\ ret = <<base \o sargs.default_parameters \o <<"--">> \o sargs.arguments>>
           ELSE /\ IsContractViolation(result)
                /\ ret = <<>>

C6_Witness ==
    /\ pc = "done"
    /\ op = "_make_parameters"
    /\ sargs.memory = <<1>>
    /\ sargs.default_parameters = <<"--conf", "x=1">>
    /\ sargs.arguments # <<>>
    /\ result = "return"
    /\ Len(ret[1]) = 12

(***************************************************************************)
(* C7 as stated.  MasterAddress.docker_parameters: with actual equal to    *)
(* the notional address it returns the input list, or a fresh empty list   *)
(* if none was given; otherwise the input list followed by the one flag    *)
(* --add-host=spark-master:<actual>.                                       *)
(***************************************************************************)
C7_EmptyListForNone ==
    (pc = "done" /\ op = "docker_parameters") =>
        LET m == sargs.master_ip
            given == IF sargs.docker_parameters = <<>> THEN <<>> ELSE sargs.docker_parameters[1]
        IN IF m.notional = m.actual
           THEN ret = <<given>>
           ELSE ret = <<given \o <<"--add-host=spark-master:" \o m.actual>>>>

(***************************************************************************)
(* C7 as amended.  With actual equal to the notional address               *)
(* docker_parameters returns its argument as it was given: the list, or    *)
(* None if no list was given.  Otherwise it returns the input list (empty  *)
(* if none was given) followed by --add-host=spark-master:<actual>.        *)
(***************************************************************************)
C7_DockerParameters ==
    (pc = "done" /\ op = "docker_parameters") =>
        LET m == sargs.master_ip
            given == IF sargs.docker_parameters = <<>> THEN <<>> ELSE sargs.docker_parameters[1]
        IN IF m.notional = m.actual
           THEN ret = sargs.docker_parameters
           ELSE ret = <<given \o <<"--add-host=spark-master:" \o m.actual>>>>

C7_Witness ==
    /\ pc = "done"
    /\ op = "docker_parameters"
    /\ sargs.master_ip.notional = sargs.master_ip.actual
    /\ sargs.docker_parameters = <<>>
    /\ ret = <<>>

(***************************************************************************)
(* C8.  A mock-mode docker_call spawns neither the main container nor the  *)
(* ownership repair.  No file that exists changes, and no file that is not *)
(* a declared output appears.  When the call returns, every declared       *)
(* output without a url that was absent now holds "contents", and the same *)
(* call made again returns with the files as they are.                     *)
(***************************************************************************)
C8_MockStep ==
    (pc = "idle" /\ op' = "docker_call" /\ result' # "TypeError" /\ ResolveMock(args', env)) =>
        /\ pc' = "done"
        /\ Count(events', "main") = 0
        /\ Count(events', "repair") = 0
        /\ \A p \in Paths : fs[p] # Absent => fs'[p] = fs[p]
        /\ \A p \in Paths : (\A n \in DOMAIN args'.outputs : PathJoin(args'.work_dir, n) # p)
                                => fs'[p] = fs[p]
        /\ \A n \in DOMAIN args'.outputs :
              (args'.outputs[n] = <<>> /\ fs[PathJoin(args'.work_dir, n)] = Absent) =>
                  /\ fs'[PathJoin(args'.work_dir, n)] \in {Absent, "contents"}
                  /\ result' = "return" => fs'[PathJoin(args'.work_dir, n)] = "contents"
        /\ result' = "return" => MockOutcomes(fs', args') = {[fs |-> fs', result |-> "return"]}

C8_MockFrame == [][C8_MockStep]_vars

C8_Witness ==
    /\ DockerCallDone
    /\ env = "1"
    /\ args.mock = <<>>
    /\ result = "return"
    /\ DOMAIN args.outputs = OutputNames
    /\ \A n \in OutputNames : args.outputs[n] = <<>>
    /\ fs["/work/out.txt"] = "contents"
    /\ fs["/tmp/out.txt"] = "data"

(***************************************************************************)
(* C9.  When the main container process exits nonzero the call ends with   *)
(* that process failure, also when the repair fails; the repair ran once,  *)
(* the main command ran once, and the outputs were not verified.           *)
(***************************************************************************)
C9_OriginalFailure ==
    (pc = "done" /\ mainExit = "nonzero") =>
        /\ result = "CalledProcessError_main"
        /\ RepairRuns = 1
        /\ MainRuns = 1
        /\ ~Contains(events, "verify")

C9_Witness ==
    /\ pc = "done"
    /\ mainExit = "nonzero"
    /\ repairExit = "nonzero"
    /\ result = "CalledProcessError_main"

(***************************************************************************)
(* C10.  Within one docker_call the events come in the order: input        *)
(* checks, then mock fabrication or the main process, then repair, then    *)
(* output verification.  Verification follows a completed repair.  A call  *)
(* with a missing declared input spawns nothing, fabricates nothing,       *)
(* changes no file and ends in a contract violation, mock or not.          *)
(***************************************************************************)
EventRank(e) ==
    CASE e = "inputs_ok" -> 1
      [] e \in {"mock_outputs", "main"} -> 2
      [] e = "repair" -> 3
      [] e = "verify" -> 4
      [] OTHER -> 0

C10_Ordered ==
    op = "docker_call" =>
        /\ \A i, j \in 1..Len(events) : i < j => EventRank(events[i]) < EventRank(events[j])
        /\ events # <<>> => events[1] = "inputs_ok"
        /\ Contains(events, "verify") => (Contains(events, "repair") /\ repairExit = "zero")
        /\ Contains(events, "repair") => (Contains(events, "main") /\ mainExit # "none")
        /\ (\E n \in args.inputs : fs[args.work_dir \o "/" \o n] = Absent) =>
               /\ events = <<>>
               /\ pc = "done" /\ IsContractViolation(result)

C10_MissingInputStep ==
    (pc = "idle" /\ op' = "docker_call"
       /\ \E n \in args'.inputs : fs[args'.work_dir \o "/" \o n] = Absent) => fs' = fs

C10_Order == []C10_Ordered /\ [][C10_MissingInputStep]_vars

C10_Witness ==
    /\ DockerCallDone
    /\ events = <<"inputs_ok", "main", "repair", "verify">>
    /\ args.inputs # {}
    /\ result = "return"

====
